---- MODULE Spec2Model ----
(***************************************************************************)
(* Model of the secret-redaction layer of anchore/go-logger                *)
(* (package adapter/redact): the secret store, and the streaming           *)
(* redactingWriter with its sliding-window buffer.                         *)
(*                                                                         *)
(* Strings and byte slices are sequences of one-character strings.         *)
(* The iteration order of the store's set (a Go map behind strset) is      *)
(* unspecified and may differ from one call to the next, so every read of  *)
(* the set picks an order nondeterministically.                            *)
(***************************************************************************)
EXTENDS Integers, Sequences, FiniteSets, TLC

VARIABLES
    redactions,   \* store.redactions: the set of tracked secrets
    buffer,       \* redactingWriter.buffer
    sink,         \* every byte the underlying writer has taken so far
    sinkIsCloser, \* whether the underlying writer implements io.Closer
    sinkCloses,   \* number of times the underlying writer's Close was invoked
    crashed,      \* the process panicked (slice bounds out of range) or hangs
    ret,          \* what the last call did and returned
    text,         \* history: every byte handed to Write so far
    failedEver,   \* history: some sink write has failed
    fixedSet,     \* history: the secret set has not changed since the first Write
    addMark,      \* history: secret added while the buffer was empty |-> Len(sink) then
    nWrites, nCloses, nAdds,
    stores,       \* every store constructed so far: its redactions and its _id
    storeCall,    \* the last call made on a store, with what it returned
    built,        \* every collection constructed so far
    collCall,     \* the last call made on a collection, with what it returned
    lock,         \* redactingWriter.lock: the thread holding it, or 0
    pc,           \* where each thread stands in the call it makes
    rw            \* store.lock: the thread holding it for writing, or 0, and
                  \* the threads holding it for reading

writerVars == <<redactions, buffer, sink, sinkIsCloser, sinkCloses, crashed, ret,
                text, failedEver, fixedSet, addMark, nWrites, nCloses, nAdds>>

storeVars == <<stores, storeCall>>

collVars == <<built, collCall>>

threadVars == <<lock, pc, rw>>

vars == <<writerVars, storeVars, collVars, threadVars>>

----------------------------------------------------------------------------
(* Bounds of the model *)

MaxWrites == 3
MaxCloses == 2
MaxAdds == 1
MaxBulkWrites == 3
MaxStores == 2
MaxCollections == 2
MaxThreads == 2
MaxThreadWrites == 2
MaxAgainLen == 24
MaxMembers == 2

----------------------------------------------------------------------------
(* Strings *)

Repeat(c, n) == [i \in 1..n |-> c]

\* strings.Repeat("*", 7)
RedactionMarker == Repeat("*", 7)

\* s[i:i+len(p)] == p, with i a 0-based offset as in the Go code
StartsWithAt(s, i, p) ==
    /\ i + Len(p) <= Len(s)
    /\ SubSeq(s, i + 1, i + Len(p)) = p

\* s[from:] with a 0-based offset
SliceFrom(s, from) == SubSeq(s, from + 1, Len(s))

\* s[:to] with a 0-based offset
SliceTo(s, to) == SubSeq(s, 1, to)

Contains(s, p) == \E i \in 0..Len(s) : StartsWithAt(s, i, p)

\* one step of the left-to-right scan over <<offset, text produced so far>>: an
\* occurrence of old at the offset is replaced, any other character is copied
ReplaceStep(s, old, new, st) ==
    IF st[1] >= Len(s) THEN st
    ELSE IF StartsWithAt(s, st[1], old)
         THEN <<st[1] + Len(old), st[2] \o new>>
         ELSE <<st[1] + 1, st[2] \o <<s[st[1] + 1]>> >>

\* n steps of the scan; the set binds the state after the first half of them,
\* which is then computed once
RECURSIVE ReplaceLoop(_, _, _, _, _)
ReplaceLoop(n, s, old, new, st) ==
    IF n = 0 THEN st
    ELSE IF n = 1 THEN ReplaceStep(s, old, new, st)
    ELSE CHOOSE end \in
             {IF half[1] >= Len(s) THEN half
              ELSE ReplaceLoop(n - (n \div 2), s, old, new, half) :
                  half \in {ReplaceLoop(n \div 2, s, old, new, st)}} : TRUE

\* s[i:] with the leftmost non-overlapping occurrences of a non-empty old
\* replaced by new: every step moves the offset forward
ReplaceFrom(s, i, old, new) ==
    ReplaceLoop(Len(s) - i, s, old, new, <<i, <<>> >>)[2]

\* new before every character of s and at its end
Interleave(s, new) ==
    LET block == Len(new) + 1
    IN [i \in 1..(Len(s) * block + Len(new)) |->
           IF (i - 1) % block < Len(new)
           THEN new[((i - 1) % block) + 1]
           ELSE s[((i - 1) \div block) + 1]]

\* strings.ReplaceAll: leftmost non-overlapping occurrences; an empty old
\* matches before every character and at the end
\* (the set binds the text, which is then computed once)
ReplaceAll(s, old, new) ==
    CHOOSE out \in {IF old = <<>> THEN Interleave(str, new)
                    ELSE ReplaceFrom(str, 0, old, new) : str \in {s}} : TRUE

----------------------------------------------------------------------------
(* The store *)

\* strset.New(values...): no value is filtered out
NewStore(values) == {values[i] : i \in 1..Len(values)}

\* variant: a listing may name a value twice
Values_repeating(set) == [1..Cardinality(set) -> set]

\* the orders in which one iteration over the set can list it
Values(set) ==
    {f \in [1..Cardinality(set) -> set] :
        \A i, j \in 1..Cardinality(set) : i # j => f[i] # f[j]}

\* variant: a short value is skipped and the loop goes on
RECURSIVE AddLoop_skipShort(_, _)
AddLoop_skipShort(set, values) ==
    IF values = <<>> THEN set
    ELSE IF Len(Head(values)) <= 1 THEN AddLoop_skipShort(set, Tail(values))
    ELSE AddLoop_skipShort(set \cup {Head(values)}, Tail(values))

RECURSIVE AddLoop(_, _)
AddLoop(set, values) ==
    IF values = <<>> THEN set
    ELSE IF Len(Head(values)) <= 1 THEN set
    ELSE AddLoop(set \cup {Head(values)}, Tail(values))

\* variant: the marker is as long as the secret it replaces
RECURSIVE RedactString_sameLength(_, _)
RedactString_sameLength(input, values) ==
    IF values = <<>> THEN input
    ELSE RedactString_sameLength(
             ReplaceAll(input, Head(values), Repeat("*", Len(Head(values)))),
             Tail(values))

\* every secret of the list replaced by the marker, one secret after the other
RECURSIVE RedactString(_, _)
RedactString(input, values) ==
    IF values = <<>> THEN input
    ELSE RedactString(ReplaceAll(input, Head(values), RedactionMarker), Tail(values))

\* the identifiers uuid.New() can hand out
UUIDs == 1..(MaxStores + 1)

\* variant: the generator may repeat an identifier
NewUUID_repeating(used) == UUIDs

\* uuid.New().String(): a random identifier, none handed out before
NewUUID(used) == UUIDs \ used

\* variant: the identity is derived from the number of tracked secrets
id_fromContents(w) == Cardinality(w.redactions)

\* store.id
id(w) == w._id

----------------------------------------------------------------------------
(* Collections *)

\* a member that is not a collection: it has an id and replaces every
\* occurrence of one string by another
Leaf(idValue, old, new) ==
    [kind |-> "leaf", idValue |-> idValue, old |-> old, new |-> new, members |-> <<>>]

\* a collection: a sequence of members
Collection(members) ==
    [kind |-> "collection", idValue |-> <<>>, old |-> <<>>, new |-> <<>>,
     members |-> members]

\* r.id(): a collection's id is the concatenation of its members' ids
RECURSIVE readerId(_), collectionId(_)
readerId(r) == IF r.kind = "collection" THEN collectionId(r.members) ELSE r.idValue

collectionId(members) ==
    IF members = <<>> THEN <<>>
    ELSE readerId(Head(members)) \o collectionId(Tail(members))

\* variant: every reader is appended, whatever its id
addReader_keepAll(collection, rs) == collection \o rs

\* the addReader closure: each reader whose id is new is appended
RECURSIVE addReader(_, _)
addReader(collection, rs) ==
    IF rs = <<>> THEN collection
    ELSE IF \E k \in 1..Len(collection) : readerId(collection[k]) = readerId(Head(rs))
         THEN addReader(collection, Tail(rs))
         ELSE addReader(Append(collection, Head(rs)), Tail(rs))

\* variant: a collection given as argument becomes a member itself
newStoreReaderCollection_nested(readers) == Collection(addReader(<<>>, readers))

\* the loop over the arguments: the members of a collection are spliced in
RECURSIVE CollectLoop(_, _)
CollectLoop(collection, readers) ==
    IF readers = <<>> THEN collection
    ELSE LET r == Head(readers)
             next == IF r.kind = "collection"
                     THEN addReader(collection, r.members)
                     ELSE addReader(collection, <<r>>)
         IN CollectLoop(next, Tail(readers))

newStoreReaderCollection(readers) == Collection(CollectLoop(<<>>, readers))

\* variant: the members are applied last to first
RECURSIVE CollectionRedactString_reversed(_, _)
CollectionRedactString_reversed(members, input) ==
    IF members = <<>> THEN input
    ELSE LET rest == CollectionRedactString_reversed(Tail(members), input)
             r == Head(members)
         IN IF r.kind = "collection"
            THEN CollectionRedactString_reversed(r.members, rest)
            ELSE ReplaceAll(rest, r.old, r.new)

\* RedactString of a collection: each member is given what the member before
\* it returned
RECURSIVE CollectionRedactString(_, _)
CollectionRedactString(members, input) ==
    IF members = <<>> THEN input
    ELSE LET r == Head(members)
             redacted == IF r.kind = "collection"
                         THEN CollectionRedactString(r.members, input)
                         ELSE ReplaceAll(input, r.old, r.new)
         IN CollectionRedactString(Tail(members), redacted)

----------------------------------------------------------------------------
(* The writer *)

DefaultMaxLen == 64

RECURSIVE MaxLen(_)
MaxLen(values) ==
    IF values = <<>> THEN 0
    ELSE LET m == MaxLen(Tail(values))
         IN IF Len(Head(values)) > m THEN Len(Head(values)) ELSE m

\* variant: no window at all
maxSecretLength_zero(values) == 0

maxSecretLength(values) ==
    IF Len(values) = 0 THEN DefaultMaxLen ELSE MaxLen(values)

WindowSize(values) == 2 * maxSecretLength(values)

\* variant: only the first member of a collection is asked for its values
getRedactorValues_firstOnly(members) ==
    IF members = <<>> THEN {<<>>} ELSE Values(Head(members).redactions)

\* the listings getRedactorValues can return for a collection of stores: the
\* members' listings one after the other
RECURSIVE getRedactorValues(_)
getRedactorValues(members) ==
    IF members = <<>> THEN {<<>>}
    ELSE {h \o t : h \in Values(Head(members).redactions),
                   t \in getRedactorValues(Tail(members))}

\* variant: one byte more than the window is let through without a flush
FlushNeeded_late(bufLen, windowSize) == bufLen > windowSize + 1

\* variant: flushes as soon as the buffer reaches the window
FlushNeeded_atWindow(bufLen, windowSize) == bufLen >= windowSize

FlushNeeded(bufLen, windowSize) == bufLen > windowSize

\* index of the first secret of values found at offset oPos, 0 when none is
FirstMatch(original, oPos, values) ==
    LET hits == {k \in 1..Len(values) : StartsWithAt(original, oPos, values[k])}
    IN IF hits = {} THEN 0 ELSE CHOOSE k \in hits : \A h \in hits : k <= h

\* the cursors of a scan that never ends
Diverges == <<-1, -1>>

\* one pass of the scanning loop of mapPosition over the cursors <<oPos, rPos>>;
\* a pass taken when the loop condition is false leaves them as they are
MapStep(original, origPos, values, pos) ==
    IF pos = Diverges \/ ~(pos[1] < origPos /\ pos[1] < Len(original)) THEN pos
    ELSE LET k == FirstMatch(original, pos[1], values)
         IN IF k = 0 THEN <<pos[1] + 1, pos[2] + 1>>
            ELSE IF Len(values[k]) = 0 THEN Diverges
            ELSE <<pos[1] + Len(values[k]), pos[2] + Len(RedactionMarker)>>

\* n passes of the loop; the set binds the cursors after the first half of
\* them, which are then computed once
RECURSIVE MapLoop(_, _, _, _, _)
MapLoop(n, original, origPos, values, pos) ==
    IF n = 0 THEN pos
    ELSE IF n = 1 THEN MapStep(original, origPos, values, pos)
    ELSE CHOOSE end \in
             {IF half = Diverges THEN Diverges
              ELSE MapLoop(n - (n \div 2), original, origPos, values, half) :
                  half \in {MapLoop(n \div 2, original, origPos, values, pos)}} : TRUE

\* every pass but a match of an empty secret moves oPos forward, so the loop is
\* over after origPos passes or never
mapPosition(original, redacted, origPos, values) ==
    IF origPos >= Len(original) THEN Len(redacted)
    ELSE LET end == MapLoop(origPos, original, origPos, values, <<0, 0>>)
         IN end[2]

\* redactedFull[:redactedFlushLen], the bytes handed to the underlying writer
FlushedPart(redactedFull, redactedFlushLen) == SliceTo(redactedFull, redactedFlushLen)

\* variant: the first retained byte is dropped
RetainedPart_offByOne(redactedFull, redactedFlushLen) ==
    SliceFrom(redactedFull, redactedFlushLen + 1)

\* redactedFull[redactedFlushLen:], the new buffer after a flush
RetainedPart(redactedFull, redactedFlushLen) == SliceFrom(redactedFull, redactedFlushLen)

\* variant: the redacted window is committed although the write failed
BufferAfterFailedFlush_committed(appended, redactedFull, redactedFlushLen) ==
    SliceFrom(redactedFull, redactedFlushLen)

\* the buffer a Write leaves behind when the underlying write failed
BufferAfterFailedFlush(appended, redactedFull, redactedFlushLen) == appended

\* variant: nothing is reported as accepted
BytesAccepted_none(p) == 0

\* the count Write returns
BytesAccepted(p) == Len(p)

NoCall == [op |-> "none", n |-> 0, err |-> "nil", data |-> <<>>, pre |-> <<>>,
           window |-> 0, sinkWrites |-> 0, closeCalls |-> 0, closerRet |-> "none"]

\* the flush of a Write: the boundary is mapped with the listing values, the
\* redacted prefix is handed to the underlying writer and the rest is kept
WriteFlush(p, call, appended, windowSize, redactedFull, values) ==
    LET origFlushLen == Len(appended) - windowSize
        redactedFlushLen == mapPosition(appended, redactedFull, origFlushLen, values)
    IN IF redactedFlushLen < 0 \/ redactedFlushLen > Len(redactedFull)
       THEN \* the scan never ends, or the slice bound is out of range
            /\ buffer' = appended
            /\ crashed' = TRUE
            /\ ret' = [call EXCEPT !.op = "panic"]
            /\ UNCHANGED <<sink, failedEver>>
       ELSE \E sinkOK \in BOOLEAN :
            IF ~sinkOK
            THEN /\ buffer' = BufferAfterFailedFlush(appended, redactedFull,
                                                     redactedFlushLen)
                 /\ failedEver' = TRUE
                 /\ ret' = [call EXCEPT !.n = BytesAccepted(p),
                                        !.err = "werr", !.sinkWrites = 1]
                 /\ UNCHANGED <<sink, crashed>>
            ELSE /\ sink' = sink \o FlushedPart(redactedFull, redactedFlushLen)
                 /\ buffer' = RetainedPart(redactedFull, redactedFlushLen)
                 /\ ret' = [call EXCEPT !.n = BytesAccepted(p),
                                        !.sinkWrites = 1]
                 /\ UNCHANGED <<crashed, failedEver>>

\* Write on a writer whose redactor lists its values as one of listings
WriteOn(p, listings) ==
    /\ ~crashed
    /\ nWrites' = nWrites + 1
    /\ text' = text \o p
    /\ LET appended == buffer \o p
           \* the longest secret is the same in whatever order the values are listed
           windowSize == WindowSize(CHOOSE v \in listings : TRUE)
           call == [NoCall EXCEPT !.op = "Write", !.data = p, !.pre = buffer,
                                  !.window = windowSize]
       IN IF ~FlushNeeded(Len(appended), windowSize)
          THEN /\ buffer' = appended
               /\ ret' = [call EXCEPT !.n = BytesAccepted(p)]
               /\ UNCHANGED <<sink, crashed, failedEver>>
          ELSE \E vR \in listings, vM \in listings :
               WriteFlush(p, call, appended, windowSize,
                          RedactString(appended, vR), vM)
    /\ UNCHANGED <<redactions, sinkIsCloser, sinkCloses, fixedSet, addMark, nCloses, nAdds>>

\* Write on a writer backed by one store
Write(p) == WriteOn(p, Values(redactions))

\* what Close hands to the underlying writer
CloseFlush(buf, values) == RedactString(buf, values)

\* variant: the result of the underlying Close is dropped
CloseResult_dropped(isCloser, closerErr) == "nil"

\* variant: the bytes handed to the underlying writer stay in the buffer
BufferAfterClose_kept(buf) == buf

\* w.buffer = nil, once the underlying writer has taken the buffer
BufferAfterClose(buf) == <<>>

\* what Close returns once the buffer is flushed
CloseResult(isCloser, closerErr) == IF isCloser THEN closerErr ELSE "nil"

\* Close on a writer whose redactor lists its values as one of listings
CloseOn(listings) ==
    /\ ~crashed
    /\ nCloses' = nCloses + 1
    /\ LET call == [NoCall EXCEPT !.op = "Close", !.pre = buffer]
           hasData == Len(buffer) > 0
       IN \E sinkOK \in (IF hasData THEN BOOLEAN ELSE {TRUE}) :
          IF ~sinkOK
          THEN /\ ret' = [call EXCEPT !.err = "werr", !.sinkWrites = 1]
               /\ failedEver' = TRUE
               /\ UNCHANGED <<buffer, sink, sinkCloses>>
          ELSE /\ IF hasData
                  THEN \E vR \in listings :
                       /\ sink' = sink \o CloseFlush(buffer, vR)
                       /\ buffer' = BufferAfterClose(buffer)
                  ELSE UNCHANGED <<sink, buffer>>
               /\ \E closerErr \in (IF sinkIsCloser THEN {"nil", "cerr"} ELSE {"none"}) :
                  /\ sinkCloses' = IF sinkIsCloser THEN sinkCloses + 1 ELSE sinkCloses
                  /\ ret' = [call EXCEPT !.err = CloseResult(sinkIsCloser, closerErr),
                                         !.sinkWrites = IF hasData THEN 1 ELSE 0,
                                         !.closeCalls = IF sinkIsCloser THEN 1 ELSE 0,
                                         !.closerRet = closerErr]
               /\ UNCHANGED failedEver
    /\ UNCHANGED <<redactions, sinkIsCloser, crashed, text, fixedSet, addMark,
                   nWrites, nAdds>>

\* Close on a writer backed by one store
Close == CloseOn(Values(redactions))

Add(values) ==
    /\ ~crashed
    /\ nAdds' = nAdds + 1
    /\ redactions' = AddLoop(redactions, values)
    /\ fixedSet' = (fixedSet /\ (nWrites = 0 \/ redactions' = redactions))
    /\ addMark' = IF buffer = <<>>
                  THEN [s \in (DOMAIN addMark) \cup (redactions' \ redactions) |->
                          IF s \in DOMAIN addMark THEN addMark[s] ELSE Len(sink)]
                  ELSE addMark
    /\ ret' = [NoCall EXCEPT !.op = "Add"]
    /\ UNCHANGED <<buffer, sink, sinkIsCloser, sinkCloses, crashed, text, failedEver,
                   nWrites, nCloses>>

\* no call has been made on a store yet
NoStoreCall == [op |-> "none", store |-> 0, args |-> <<>>, pre |-> {},
                in |-> <<>>, order |-> <<>>, out |-> <<>>]

\* no call has been made on a collection yet
NoCollCall == [op |-> "none", args |-> <<>>, result |-> Collection(<<>>), in |-> <<>>,
               out |-> <<>>]

----------------------------------------------------------------------------
(* Inputs *)

a == "a"
b == "b"

\* the secrets the stores of the model are built from
InitialValues ==
    { << <<a, b>> >>,
      << <<a, a>>, <<b, b>> >>,
      << <<a, b>>, <<b, a>> >>,
      << <<a, b>>, <<a, b, a, b>> >> }

AddArgs == { << <<a, b>> >>, << <<b, b>> >> }

Chunks == { <<a>>, <<b>>, <<a, b>>, <<a, b, a, b>> \o Repeat(a, 7) }

BulkChunks == { <<a>>, <<a, b>>, Repeat(a, 64), Repeat(b, 65) }

----------------------------------------------------------------------------
(* Specifications *)

\* NewRedactingWriter(sink, NewStore(values...))
InitWriter(values) ==
    /\ redactions = NewStore(values)
    /\ buffer = <<>>
    /\ sink = <<>>
    /\ sinkIsCloser \in BOOLEAN
    /\ sinkCloses = 0
    /\ crashed = FALSE
    /\ ret = NoCall
    /\ text = <<>>
    /\ failedEver = FALSE
    /\ fixedSet = TRUE
    /\ addMark = <<>>
    /\ nWrites = 0
    /\ nCloses = 0
    /\ nAdds = 0

InitWith(values) ==
    /\ InitWriter(values)
    /\ stores = <<>>
    /\ storeCall = NoStoreCall
    /\ built = <<>>
    /\ collCall = NoCollCall

\* the writer is used by one caller at a time
\* a sync.RWMutex nobody holds
Unheld == [writer |-> 0, readers |-> {}]

NoThreads == lock = 0 /\ pc = <<>> /\ rw = Unheld

Init == \E values \in InitialValues : InitWith(values) /\ NoThreads

\* calls made by one thread at a time: the stores, collections and threads of
\* the other specifications stay as they are
Sequential == UNCHANGED <<storeVars, collVars, threadVars>>

DoWrite ==
    \E p \in Chunks : nWrites < MaxWrites /\ nCloses = 0 /\ Write(p) /\ Sequential

DoClose == nCloses < MaxCloses /\ Close /\ Sequential

DoAdd ==
    \E values \in AddArgs : nAdds < MaxAdds /\ nCloses = 0 /\ Add(values) /\ Sequential

Next == DoWrite \/ DoClose

Spec == Init /\ [][Next]_vars

\* secrets added to the store while the writer is in use
InitialValuesAdd == { << <<a, a>> >>, << <<a, b, a, b>> >> }

ChunksAdd == { <<b>>, <<b, b, a>>, <<a, b, a, b>> \o Repeat(a, 7) }

DoWriteAdd ==
    \E p \in ChunksAdd : nWrites < MaxWrites /\ nCloses = 0 /\ Write(p) /\ Sequential

InitAdd == \E values \in InitialValuesAdd : InitWith(values) /\ NoThreads

NextAdd == DoWriteAdd \/ DoClose \/ DoAdd

SpecAdd == InitAdd /\ [][NextAdd]_vars

\* a writer over an empty store, fed large writes
InitBulk == InitWith(<<>>) /\ NoThreads

DoBulkWrite ==
    \E p \in BulkChunks : nWrites < MaxBulkWrites /\ nCloses = 0 /\ Write(p) /\ Sequential

NextBulk == DoBulkWrite \/ DoClose

SpecBulk == InitBulk /\ [][NextBulk]_vars

----------------------------------------------------------------------------
(* One writer called from several threads *)

InitialValuesThreads == { << <<a, b>> >>, << <<a, b>>, <<a, b, a, b>> >> }

ChunksThreads == { <<a>>, <<b>>, <<a, b, a, b>> \o Repeat(a, 7) }

Idle == [at |-> "idle", op |-> "none", data |-> <<>>]

Threads == 1..MaxThreads

\* the Write calls made so far, finished or not
WriteCalls == nWrites + Cardinality({t \in Threads : pc[t].op = "Write"})

CloseCalls == nCloses + Cardinality({t \in Threads : pc[t].op = "Close"})

\* variant: Lock returns although another thread holds the lock
LockFree_always(l) == TRUE

\* w.lock.Lock() returns only when no thread holds the lock
LockFree(l) == l = 0

\* thread t calls Write(p)
ThreadCallWrite ==
    \E t \in Threads, p \in ChunksThreads :
        /\ pc[t].at = "idle"
        /\ WriteCalls < MaxThreadWrites
        /\ pc' = [pc EXCEPT ![t] = [at |-> "calling", op |-> "Write", data |-> p]]
        /\ UNCHANGED <<lock, rw, writerVars, storeVars, collVars>>

\* thread t calls Close
ThreadCallClose ==
    \E t \in Threads :
        /\ pc[t].at = "idle"
        /\ CloseCalls < MaxCloses
        /\ pc' = [pc EXCEPT ![t] = [at |-> "calling", op |-> "Close", data |-> <<>>]]
        /\ UNCHANGED <<lock, rw, writerVars, storeVars, collVars>>

\* w.lock.Lock() returns in thread t
ThreadLock ==
    \E t \in Threads :
        /\ pc[t].at = "calling"
        /\ LockFree(lock)
        /\ lock' = t
        /\ pc' = [pc EXCEPT ![t].at = "locked"]
        /\ UNCHANGED <<rw, writerVars, storeVars, collVars>>

\* thread t runs the body of Write and returns, the deferred Unlock included
ThreadWrite ==
    \E t \in Threads :
        /\ pc[t].at = "locked"
        /\ pc[t].op = "Write"
        /\ Write(pc[t].data)
        /\ lock' = 0
        /\ pc' = [pc EXCEPT ![t] = Idle]
        /\ UNCHANGED <<rw, storeVars, collVars>>

\* thread t runs the body of Close and returns, the deferred Unlock included
ThreadClose ==
    \E t \in Threads :
        /\ pc[t].at = "locked"
        /\ pc[t].op = "Close"
        /\ Close
        /\ lock' = 0
        /\ pc' = [pc EXCEPT ![t] = Idle]
        /\ UNCHANGED <<rw, storeVars, collVars>>

InitThreads ==
    /\ \E values \in InitialValuesThreads : InitWith(values)
    /\ lock = 0
    /\ pc = [t \in Threads |-> Idle]
    /\ rw = Unheld

NextThreads ==
    ThreadCallWrite \/ ThreadCallClose \/ ThreadLock \/ ThreadWrite \/ ThreadClose

SpecThreads == InitThreads /\ [][NextThreads]_vars

----------------------------------------------------------------------------
(* One store called from several threads *)

InitialValuesLock == { << <<a, b>> >> }

\* the argument lists of Add: one secret, a short value after the first secret
AddArgsLock == { << <<b, b>> >>, << <<a, a>>, <<a>>, <<b, a>> >> }

InputsLock == { <<a, b, b, b>> }

StoreIdle == [at |-> "idle", op |-> "none", args |-> <<>>, local |-> {}, out |-> <<>>]

\* variant: Lock returns whoever holds the lock
WriteLockFree_always(l) == TRUE

\* w.lock.Lock() returns only when no thread holds the lock
WriteLockFree(l) == l.writer = 0 /\ l.readers = {}

\* w.lock.RLock() returns only when no thread holds the lock for writing; a
\* thread blocked in Lock keeps new readers out
ReadLockFree(l) ==
    /\ l.writer = 0
    /\ \A u \in Threads : ~(pc[u].at = "calling" /\ pc[u].op = "Add")

\* what the calls on the store leave alone
StoreFrame ==
    UNCHANGED <<buffer, sink, sinkIsCloser, sinkCloses, crashed, ret, text, failedEver,
                fixedSet, addMark, nWrites, nCloses, nAdds, storeVars, collVars, lock>>

\* thread t calls Add(values...)
LockCallAdd ==
    \E t \in Threads, values \in AddArgsLock :
        /\ pc[t].at = "idle"
        /\ pc' = [pc EXCEPT ![t] = [StoreIdle EXCEPT !.at = "calling", !.op = "Add",
                                                     !.args = values]]
        /\ UNCHANGED <<redactions, rw>>
        /\ StoreFrame

\* thread t calls Values()
LockCallValues ==
    \E t \in Threads :
        /\ pc[t].at = "idle"
        /\ pc' = [pc EXCEPT ![t] = [StoreIdle EXCEPT !.at = "calling", !.op = "Values"]]
        /\ UNCHANGED <<redactions, rw>>
        /\ StoreFrame

\* thread t calls RedactString(input)
LockCallRedact ==
    \E t \in Threads, input \in InputsLock :
        /\ pc[t].at = "idle"
        /\ pc' = [pc EXCEPT ![t] = [StoreIdle EXCEPT !.at = "calling",
                                                     !.op = "RedactString",
                                                     !.args = input]]
        /\ UNCHANGED <<redactions, rw>>
        /\ StoreFrame

\* w.lock.Lock() returns in thread t
LockLock ==
    \E t \in Threads :
        /\ pc[t].at = "calling"
        /\ pc[t].op = "Add"
        /\ WriteLockFree(rw)
        /\ rw' = [rw EXCEPT !.writer = t]
        /\ pc' = [pc EXCEPT ![t].at = "locked"]
        /\ UNCHANGED redactions
        /\ StoreFrame

\* w.lock.RLock() returns in thread t
LockRLock ==
    \E t \in Threads :
        /\ pc[t].at = "calling"
        /\ pc[t].op \in {"Values", "RedactString"}
        /\ ReadLockFree(rw)
        /\ rw' = [rw EXCEPT !.readers = @ \cup {t}]
        /\ pc' = [pc EXCEPT ![t].at = "rlocked"]
        /\ UNCHANGED redactions
        /\ StoreFrame

\* thread t, in Add, reads the set it is about to extend
LockAddLoad ==
    \E t \in Threads :
        /\ pc[t].at = "locked"
        /\ pc' = [pc EXCEPT ![t].at = "loaded", ![t].local = redactions]
        /\ UNCHANGED <<redactions, rw>>
        /\ StoreFrame

\* thread t writes the extended set and returns from Add, the deferred Unlock
\* included
LockAddStore ==
    \E t \in Threads :
        /\ pc[t].at = "loaded"
        /\ redactions' = AddLoop(pc[t].local, pc[t].args)
        /\ rw' = [rw EXCEPT !.writer = 0]
        /\ pc' = [pc EXCEPT ![t].at = "idle"]
        /\ StoreFrame

\* thread t reads the set and returns from Values or RedactString, the deferred
\* RUnlock included
LockRead ==
    \E t \in Threads, order \in Values(redactions) :
        /\ pc[t].at = "rlocked"
        /\ pc' = [pc EXCEPT ![t].at = "idle",
                            ![t].out = IF pc[t].op = "Values" THEN order
                                       ELSE RedactString(pc[t].args, order)]
        /\ rw' = [rw EXCEPT !.readers = @ \ {t}]
        /\ UNCHANGED redactions
        /\ StoreFrame

InitLock ==
    /\ \E values \in InitialValuesLock : InitWith(values)
    /\ ~sinkIsCloser
    /\ lock = 0
    /\ pc = [t \in Threads |-> StoreIdle]
    /\ rw = Unheld

NextLock ==
    \/ LockCallAdd
    \/ LockCallValues
    \/ LockCallRedact
    \/ LockLock
    \/ LockRLock
    \/ LockAddLoad
    \/ LockAddStore
    \/ LockRead

SpecLock == InitLock /\ [][NextLock]_vars

----------------------------------------------------------------------------
(* One writer and its store called from several threads *)

\* the literals of the store: one secret; the empty string and one secret
InitialValuesShared == { << <<a, b>> >>, << <<>>, <<a, b>> >> }

AddArgsShared == { << <<"x", "c">> >> }

ChunksShared == { <<"x", "x", "c", "x", "x", "x">>, <<a>> }

SharedIdle == [at |-> "idle", op |-> "none", data |-> <<>>, pre |-> <<>>,
               window |-> 0, redacted |-> <<>>, seen |-> <<>>]

\* the Add calls made so far, finished or not
AddCalls == nAdds + Cardinality({t \in Threads : pc[t].op = "Add"})

\* thread t calls Write(p)
SharedCallWrite(t) ==
    \E p \in ChunksShared :
        /\ ~crashed
        /\ pc[t].at = "idle"
        /\ WriteCalls < MaxThreadWrites
        /\ pc' = [pc EXCEPT ![t] = [SharedIdle EXCEPT !.at = "calling", !.op = "Write",
                                                      !.data = p]]
        /\ UNCHANGED <<lock, rw, writerVars, storeVars, collVars>>

\* thread t calls Close
SharedCallClose(t) ==
    /\ ~crashed
    /\ pc[t].at = "idle"
    /\ CloseCalls < MaxCloses
    /\ pc' = [pc EXCEPT ![t] = [SharedIdle EXCEPT !.at = "calling", !.op = "Close"]]
    /\ UNCHANGED <<lock, rw, writerVars, storeVars, collVars>>

\* thread t calls Add(values...) on the writer's store
SharedCallAdd(t) ==
    \E values \in AddArgsShared :
        /\ ~crashed
        /\ pc[t].at = "idle"
        /\ AddCalls < MaxAdds
        /\ pc' = [pc EXCEPT ![t] = [SharedIdle EXCEPT !.at = "calling", !.op = "Add",
                                                      !.data = values]]
        /\ UNCHANGED <<lock, rw, writerVars, storeVars, collVars>>

\* w.lock.Lock() of the writer returns in thread t
SharedLock(t) ==
    /\ ~crashed
    /\ pc[t].at = "calling"
    /\ pc[t].op \in {"Write", "Close"}
    /\ LockFree(lock)
    /\ lock' = t
    /\ pc' = [pc EXCEPT ![t].at = "locked"]
    /\ UNCHANGED <<rw, writerVars, storeVars, collVars>>

\* thread t, in Write, appends p and computes the window from the values the
\* store lists under its read lock; a Write that need not flush returns, the
\* deferred Unlock included
SharedWriteWindow(t) ==
    /\ ~crashed
    /\ pc[t].at = "locked"
    /\ pc[t].op = "Write"
    /\ ReadLockFree(rw)
    /\ LET p == pc[t].data
           appended == buffer \o p
           windowSize == WindowSize(CHOOSE v \in Values(redactions) : TRUE)
           call == [NoCall EXCEPT !.op = "Write", !.data = p, !.pre = buffer,
                                  !.window = windowSize]
       IN /\ buffer' = appended
          /\ IF ~FlushNeeded(Len(appended), windowSize)
             THEN /\ ret' = [call EXCEPT !.n = BytesAccepted(p)]
                  /\ nWrites' = nWrites + 1
                  /\ text' = text \o p
                  /\ lock' = 0
                  /\ pc' = [pc EXCEPT ![t] = [SharedIdle EXCEPT !.seen = <<redactions>>]]
             ELSE /\ pc' = [pc EXCEPT ![t].at = "windowed", ![t].pre = buffer,
                                      ![t].window = windowSize,
                                      ![t].seen = <<redactions>>]
                  /\ UNCHANGED <<ret, nWrites, text, lock>>
    /\ UNCHANGED <<redactions, sink, sinkIsCloser, sinkCloses, crashed, failedEver,
                   fixedSet, addMark, nCloses, nAdds, rw, storeVars, collVars>>

\* thread t, in Write, redacts the whole buffer with the values the store lists
\* under its read lock
SharedWriteRedact(t) ==
    /\ ~crashed
    /\ pc[t].at = "windowed"
    /\ ReadLockFree(rw)
    /\ \E vR \in Values(redactions) :
           pc' = [pc EXCEPT ![t].at = "redacted",
                            ![t].redacted = RedactString(buffer, vR),
                            ![t].seen = Append(@, redactions)]
    /\ UNCHANGED <<lock, rw, writerVars, storeVars, collVars>>

\* thread t, in Write, maps the boundary with the values the store lists under
\* its read lock, flushes and returns, the deferred Unlock included; a scan
\* that meets an empty secret never ends
SharedWriteMap(t) ==
    /\ ~crashed
    /\ pc[t].at = "redacted"
    /\ ReadLockFree(rw)
    /\ \E vM \in Values(redactions) :
        LET p == pc[t].data
            call == [NoCall EXCEPT !.op = "Write", !.data = p, !.pre = pc[t].pre,
                                   !.window = pc[t].window]
            origFlushLen == Len(buffer) - pc[t].window
        IN IF mapPosition(buffer, pc[t].redacted, origFlushLen, vM) < 0
           THEN /\ pc' = [pc EXCEPT ![t].at = "looping",
                                    ![t].seen = Append(@, redactions)]
                /\ UNCHANGED <<lock, writerVars>>
           ELSE /\ WriteFlush(p, call, buffer, pc[t].window, pc[t].redacted, vM)
                /\ nWrites' = nWrites + 1
                /\ text' = text \o p
                /\ lock' = 0
                /\ pc' = [pc EXCEPT ![t] = [SharedIdle EXCEPT
                                               !.seen = Append(pc[t].seen, redactions)]]
                /\ UNCHANGED <<redactions, sinkIsCloser, sinkCloses, fixedSet, addMark,
                               nCloses, nAdds>>
    /\ UNCHANGED <<rw, storeVars, collVars>>

\* thread t runs the body of Close, its one read of the store included, and
\* returns
SharedClose(t) ==
    /\ pc[t].at = "locked"
    /\ pc[t].op = "Close"
    /\ ReadLockFree(rw)
    /\ Close
    /\ lock' = 0
    /\ pc' = [pc EXCEPT ![t] = SharedIdle]
    /\ UNCHANGED <<rw, storeVars, collVars>>

\* w.lock.Lock() of the store returns in thread t
SharedAddLock(t) ==
    /\ ~crashed
    /\ pc[t].at = "calling"
    /\ pc[t].op = "Add"
    /\ WriteLockFree(rw)
    /\ rw' = [rw EXCEPT !.writer = t]
    /\ pc' = [pc EXCEPT ![t].at = "locked"]
    /\ UNCHANGED <<lock, writerVars, storeVars, collVars>>

\* thread t runs the body of Add and returns, the deferred Unlock included
SharedAdd(t) ==
    /\ pc[t].at = "locked"
    /\ pc[t].op = "Add"
    /\ Add(pc[t].data)
    /\ rw' = [rw EXCEPT !.writer = 0]
    /\ pc' = [pc EXCEPT ![t] = SharedIdle]
    /\ UNCHANGED <<lock, storeVars, collVars>>

\* a step of the call thread t is in
SharedStep(t) ==
    \/ SharedLock(t)
    \/ SharedWriteWindow(t)
    \/ SharedWriteRedact(t)
    \/ SharedWriteMap(t)
    \/ SharedClose(t)
    \/ SharedAddLock(t)
    \/ SharedAdd(t)

InitShared ==
    /\ \E values \in InitialValuesShared : InitWith(values)
    /\ ~sinkIsCloser
    /\ lock = 0
    /\ pc = [t \in Threads |-> SharedIdle]
    /\ rw = Unheld

NextShared ==
    \E t \in Threads :
        SharedCallWrite(t) \/ SharedCallClose(t) \/ SharedCallAdd(t) \/ SharedStep(t)

SpecShared == InitShared /\ [][NextShared]_vars

\* a thread that can take a step of its call is scheduled sooner or later
FairSpecShared == SpecShared /\ \A t \in Threads : WF_vars(SharedStep(t))

----------------------------------------------------------------------------
(* Stores used on their own *)

\* the literals stores are constructed from: none, a duplicate, a literal of
\* one character, a secret that is a prefix of another, the empty string
StoreInitialValues ==
    { <<>>,
      << <<a, b>>, <<a, b>> >>,
      << <<a>> >>,
      << <<a, b>>, <<a, b, b>> >>,
      << <<>> >> }

\* the argument lists of Add: a short value in the middle, at the front, the
\* empty string at the front
StoreAddArgs ==
    { << <<a, b>> >>,
      << <<b, a>>, <<a>>, <<b, b>> >>,
      << <<a>>, <<b, b>> >>,
      << <<>>, <<b, b>> >> }

\* the strings given to RedactString
StoreInputs ==
    { <<>>, <<"A", b>>, <<a, b, b, "x", a, b>>, <<b, a, b, a>>, <<b, b, a, b, "x">> }

StoreIds == {id(stores[i]) : i \in 1..Len(stores)}

\* a store is constructed
StoreNew(values) ==
    /\ \E u \in NewUUID(StoreIds) :
         stores' = Append(stores, [redactions |-> NewStore(values), _id |-> u])
    /\ storeCall' = [NoStoreCall EXCEPT !.op = "NewStore", !.store = Len(stores) + 1,
                                        !.args = values]
    /\ UNCHANGED <<writerVars, collVars, threadVars>>

\* Add on store i
StoreAdd(i, values) ==
    /\ stores' = [stores EXCEPT ![i].redactions = AddLoop(@, values)]
    /\ storeCall' = [NoStoreCall EXCEPT !.op = "Add", !.store = i, !.args = values,
                                        !.pre = stores[i].redactions]
    /\ UNCHANGED <<writerVars, collVars, threadVars>>

\* Values on store i: the set listed in one of its iteration orders
StoreValues(i) ==
    \E order \in Values(stores[i].redactions) :
        /\ storeCall' = [NoStoreCall EXCEPT !.op = "Values", !.store = i,
                                            !.pre = stores[i].redactions,
                                            !.out = order]
        /\ UNCHANGED <<stores, writerVars, collVars, threadVars>>

\* RedactString on store i
StoreRedact(i, input) ==
    \E order \in Values(stores[i].redactions) :
        /\ storeCall' = [NoStoreCall EXCEPT !.op = "RedactString", !.store = i,
                                            !.pre = stores[i].redactions,
                                            !.in = input, !.order = order,
                                            !.out = RedactString(input, order)]
        /\ UNCHANGED <<stores, writerVars, collVars, threadVars>>

\* RedactString on store i, given what its previous RedactString returned, for
\* texts of at most MaxAgainLen characters
StoreRedactAgain(i) ==
    /\ storeCall.op = "RedactString"
    /\ storeCall.store = i
    /\ Len(storeCall.out) <= MaxAgainLen
    /\ \E order \in Values(stores[i].redactions) :
        storeCall' = [NoStoreCall EXCEPT !.op = "RedactStringAgain", !.store = i,
                                         !.pre = stores[i].redactions,
                                         !.in = storeCall.out, !.order = order,
                                         !.out = RedactString(storeCall.out, order)]
    /\ UNCHANGED <<stores, writerVars, collVars, threadVars>>

\* one store and the calls made on it
DoNewStore == \E values \in StoreInitialValues : Len(stores) = 0 /\ StoreNew(values)

DoStoreAdd == \E values \in StoreAddArgs : Len(stores) = 1 /\ StoreAdd(1, values)

DoStoreValues == Len(stores) = 1 /\ StoreValues(1)

DoStoreRedact == \E input \in StoreInputs : Len(stores) = 1 /\ StoreRedact(1, input)

InitStore == InitWith(<<>>) /\ ~sinkIsCloser /\ NoThreads

DoStoreRedactAgain == Len(stores) = 1 /\ StoreRedactAgain(1)

NextStore ==
    DoNewStore \/ DoStoreAdd \/ DoStoreValues \/ DoStoreRedact \/ DoStoreRedactAgain

SpecStore == InitStore /\ [][NextStore]_vars

\* several stores side by side
IdInitialValues == { <<>>, << <<a, b>> >> }

IdAddArgs == { << <<a, b>> >>, << <<b, a>>, <<a>> >> }

IdInputs == { <<a, b, a>> }

DoNewStoreId == \E values \in IdInitialValues : Len(stores) < MaxStores /\ StoreNew(values)

DoStoreAddId == \E i \in 1..Len(stores), values \in IdAddArgs : StoreAdd(i, values)

DoStoreValuesId == \E i \in 1..Len(stores) : StoreValues(i)

DoStoreRedactId == \E i \in 1..Len(stores), input \in IdInputs : StoreRedact(i, input)

NextIds == DoNewStoreId \/ DoStoreAddId \/ DoStoreValuesId \/ DoStoreRedactId

SpecIds == InitStore /\ [][NextIds]_vars

----------------------------------------------------------------------------
(* Collections used on their own *)

\* the members collections are built from: mock1 and mock1b carry the same id
mock1 == Leaf(<<1>>, <<a>>, <<b>>)
mock1b == Leaf(<<1>>, <<b>>, <<"x">>)
mock2 == Leaf(<<2>>, <<b>>, <<"c">>)
store3 == Leaf(<<3>>, <<a, b>>, RedactionMarker)

\* the argument lists of the constructor, given the collections built so far
CollectionArgs ==
    { <<>>, <<mock1>>, <<store3>>, <<mock1, mock2>>, <<mock2, mock1>>,
      <<mock1, mock1b>>, <<mock1b, mock1>> }
    \cup UNION { { <<built[k], store3>>, <<mock1b, built[k]>>, <<built[k], built[k]>>,
                  <<mock2, built[k], mock1>> } : k \in 1..Len(built) }

CollectionInputs == { <<>>, <<a, b>>, <<b, a, b>> }

DoNewCollection ==
    \E readers \in CollectionArgs :
        /\ Len(built) < MaxCollections
        /\ built' = Append(built, newStoreReaderCollection(readers))
        /\ collCall' = [NoCollCall EXCEPT !.op = "new", !.args = readers,
                                          !.result = newStoreReaderCollection(readers)]
        /\ UNCHANGED <<writerVars, storeVars, threadVars>>

DoCollectionRedact ==
    \E k \in 1..Len(built), input \in CollectionInputs :
        /\ collCall' = [NoCollCall EXCEPT !.op = "RedactString", !.result = built[k],
                                          !.in = input,
                                          !.out = CollectionRedactString(built[k].members,
                                                                         input)]
        /\ UNCHANGED <<built, writerVars, storeVars, threadVars>>

NextCollection == DoNewCollection \/ DoCollectionRedact

SpecCollection == InitStore /\ [][NextCollection]_vars

----------------------------------------------------------------------------
(* A writer backed by a collection of stores *)

\* the literals the member stores are constructed from
MemberInitialValues == { <<>>, << <<a, b>> >> }

\* the argument lists of Add on a member: a longer secret, a short value
\* between two secrets
MemberAddArgs == { << <<"e", "f", "g">> >>, << <<"c", "d">>, <<"x">>, <<a, b>> >> }

ChunksCollection == { Repeat("x", 5), <<"e">>, <<a, b, "f", "g">> }

\* store1, ..., storeN := NewStore(...); NewRedactingWriter(sink,
\* newRedactorCollection(store1, ..., storeN)): the writer's own set stays unused
InitCollectionWriter ==
    /\ InitWriter(<<>>)
    /\ ~sinkIsCloser
    /\ NoThreads
    /\ \E init \in [1..MaxMembers -> MemberInitialValues] :
           stores = [i \in 1..MaxMembers |-> [redactions |-> NewStore(init[i]), _id |-> i]]
    /\ storeCall = NoStoreCall
    /\ built = <<>>
    /\ collCall = NoCollCall

\* Add on member store i
MemberAdd(i, values) ==
    /\ ~crashed
    /\ nAdds' = nAdds + 1
    /\ stores' = [stores EXCEPT ![i].redactions = AddLoop(@, values)]
    /\ storeCall' = [NoStoreCall EXCEPT !.op = "Add", !.store = i, !.args = values,
                                        !.pre = stores[i].redactions]
    /\ UNCHANGED <<redactions, buffer, sink, sinkIsCloser, sinkCloses, crashed, ret,
                   text, failedEver, fixedSet, addMark, nWrites, nCloses>>
    /\ UNCHANGED <<collVars, threadVars>>

DoMemberAdd ==
    \E i \in 1..Len(stores), values \in MemberAddArgs :
        nAdds < MaxAdds /\ nCloses = 0 /\ MemberAdd(i, values)

DoCollectionWrite ==
    \E p \in ChunksCollection :
        /\ nWrites < MaxWrites
        /\ nCloses = 0
        /\ WriteOn(p, getRedactorValues(stores))
        /\ UNCHANGED <<storeVars, collVars, threadVars>>

DoCollectionClose ==
    /\ nCloses < MaxCloses
    /\ CloseOn(getRedactorValues(stores))
    /\ UNCHANGED <<storeVars, collVars, threadVars>>

NextCollectionWriter == DoMemberAdd \/ DoCollectionWrite \/ DoCollectionClose

SpecCollectionWriter == InitCollectionWriter /\ [][NextCollectionWriter]_vars

----------------------------------------------------------------------------
(* Properties *)

NoStar(set) == \A s \in set : \A i \in 1..Len(s) : s[i] # "*"

\* two different secrets can overlap in a text: one occurs inside the other, or
\* a proper suffix of one is a prefix of the other
Overlap(s, t) ==
    \/ Contains(s, t)
    \/ Contains(t, s)
    \/ \E k \in 1..Len(s) - 1 : k < Len(t) /\ SliceFrom(s, Len(s) - k) = SliceTo(t, k)

NonOverlapping(set) == \A s, t \in set : s # t => ~Overlap(s, t) /\ ~Overlap(t, s)

\* the last call was a Close that delivered whatever was buffered
ClosedOK == ret.op = "Close" /\ ret.err # "werr"

\* C1: with a secret set (no secret containing '*') fixed before the first
\* Write, after any Writes and a successful Close the bytes delivered to the
\* sink contain no tracked secret as a substring.
C1_NoSecretInSink ==
    (ClosedOK /\ fixedSet /\ NoStar(redactions)) =>
        \A s \in redactions : ~Contains(sink, s)

C3_WindowTwiceSecret ==
    \A s \in redactions :
        redactions = {s} =>
            /\ ret.op = "Write" =>
                /\ ret.window = 2 * Len(s)
                /\ Len(ret.pre) + Len(ret.data) <= 2 * Len(s) => ret.sinkWrites = 0
            /\ (nCloses = 0 /\ Len(text) <= 2 * Len(s)) => sink = <<>>

\* a buffer of exactly 2L bytes, nothing delivered
C3_Witness ==
    /\ redactions = {<<a, b>>}
    /\ ret.op = "Write"
    /\ ret.window = 4
    /\ Len(buffer) = 4
    /\ buffer = text
    /\ ret.sinkWrites = 0
    /\ sink = <<>>

\* C4: with no tracked secret, a Write that brings the buffer to more than 64
\* bytes flushes the excess to the sink.
C4_DefaultWindow64 ==
    (redactions = {} /\ ret.op = "Write" /\ Len(ret.pre) + Len(ret.data) > 64) =>
        /\ ret.window = 64
        /\ ret.sinkWrites = 1

\* C5: every Write that returns reports len(data) bytes accepted, whether the
\* data was buffered, flushed, or the sink write failed.
C5_BytesAccepted == ret.op = "Write" => ret.n = Len(ret.data)

\* a Write whose sink write failed and that still reports all of its data
C5_Witness ==
    /\ ret.op = "Write"
    /\ ret.err = "werr"
    /\ ret.n = Len(ret.data)
    /\ ret.n > 0

\* C6: a Write whose sink write failed returns that error and leaves the
\* buffer as the buffer before the call with the data appended.
C6_FailedFlushKeepsBuffer ==
    (ret.op = "Write" /\ ret.err # "nil") =>
        /\ ret.err = "werr"
        /\ buffer = ret.pre \o ret.data

\* a failed flush over a buffer that redaction would have changed
C6_Witness ==
    /\ ret.op = "Write"
    /\ ret.err = "werr"
    /\ ret.pre # <<>>
    /\ buffer = ret.pre \o ret.data
    /\ \E v \in Values(redactions) : RedactString(buffer, v) # buffer

\* what the call that just returned was given to write
Written(call) == IF call.op = "Write" THEN call.data ELSE <<>>

C7_Step ==
    /\ ret'.err = "werr" =>
        /\ sink' = sink
        /\ buffer' = buffer \o Written(ret')
    /\ (failedEver /\ ret'.sinkWrites = 1 /\ ret'.err # "werr") =>
        \E v \in Values(redactions) :
            sink' \o buffer' = sink \o RedactString(buffer \o Written(ret'), v)

\* C7: a failed sink write takes nothing from the buffer and gives nothing to
\* the sink; a later flush or Close whose sink write succeeds hands over the
\* redacted form of everything pending, the data of the failed calls included,
\* nothing lost and nothing twice; and with secrets that cannot overlap the
\* output after Close is the redacted text, as if no write had failed.
C7_FailedFlushDoesNotPoison ==
    /\ [][C7_Step]_vars
    /\ []((failedEver /\ ClosedOK /\ fixedSet /\ NoStar(redactions)
              /\ NonOverlapping(redactions)) =>
            \A v \in Values(redactions) : sink = RedactString(text, v))

\* a Write whose flush failed, then a Close that delivers the redacted text
C7_Witness ==
    /\ failedEver
    /\ nCloses = 1
    /\ ClosedOK
    /\ \E s \in redactions : Contains(text, s)
    /\ \E v \in Values(redactions) : sink = RedactString(text, v)
    /\ sink # text

\* C8 as stated: on every Close a closer sink is closed and its result
\* returned, and Close on a sink without Close returns no error.
C8_AlwaysCloses ==
    ret.op = "Close" =>
        IF sinkIsCloser
        THEN ret.closeCalls = 1 /\ ret.err = ret.closerRet
        ELSE ret.err = "nil"

C8_Step ==
    (ret'.op = "Close" /\ ret'.err # "werr") =>
        \E v \in Values(redactions) :
            /\ sink' = sink \o (IF buffer = <<>> THEN <<>> ELSE RedactString(buffer, v))
            /\ buffer' = <<>>

\* C8 amended: Close writes a non-empty buffer, redacted in full, to the sink;
\* if that write fails Close returns its error, keeps the buffer and does not
\* close the sink; otherwise, buffered content or not, a closer sink is closed
\* once and its result returned, and a sink without Close gives no error.
C8_CloseUnlessWriteFails ==
    /\ [][C8_Step]_vars
    /\ [](ret.op = "Close" =>
            /\ ret.sinkWrites = (IF ret.pre = <<>> THEN 0 ELSE 1)
            /\ IF ret.err = "werr"
               THEN ret.pre # <<>> /\ buffer = ret.pre /\ ret.closeCalls = 0
               ELSE IF sinkIsCloser
               THEN ret.closeCalls = 1 /\ ret.err = ret.closerRet
               ELSE ret.closeCalls = 0 /\ ret.err = "nil")

\* a buffered secret flushed as a marker by a Close that returns the error of
\* the underlying Close
C8_Witness ==
    /\ ret.op = "Close"
    /\ sinkIsCloser
    /\ ret.pre # <<>>
    /\ ret.closeCalls = 1
    /\ ret.err = "cerr"
    /\ Contains(sink, RedactionMarker)
    /\ buffer = <<>>

\* C9: no Write or Close panics; the boundary mapPosition returns is within
\* the redacted text.
C9_NoPanic == ~crashed

\* C10: an occurrence of a secret written in full after the secret was added
\* never reaches the sink unredacted.
C10_AddedSecretRedacted ==
    \A s \in DOMAIN addMark : ~Contains(SliceFrom(sink, addMark[s]), s)

----------------------------------------------------------------------------
(* Properties of the store *)

\* the position of the first value shorter than 2 characters, or one past the end
FirstShort(values) ==
    IF \E j \in 1..Len(values) : Len(values[j]) < 2
    THEN CHOOSE j \in 1..Len(values) :
             /\ Len(values[j]) < 2
             /\ \A k \in 1..(j - 1) : Len(values[k]) >= 2
    ELSE Len(values) + 1

\* C11: Add takes its arguments in order and stops at the first one shorter
\* than 2 characters: the arguments before it are in the set afterwards, the
\* short one and those after it are not added; a short first argument makes
\* the call a no-op.
C11_AddStopsAtFirstShort ==
    storeCall.op = "Add" =>
        LET args == storeCall.args
            set == stores[storeCall.store].redactions
        IN /\ set = storeCall.pre \cup {args[j] : j \in 1..(FirstShort(args) - 1)}
           /\ (Len(args) > 0 /\ Len(args[1]) < 2) => set = storeCall.pre

\* Add("ba", "a", "bb"): "ba" is committed, "bb" is not
C11_Witness ==
    /\ storeCall.op = "Add"
    /\ storeCall.args = << <<b, a>>, <<a>>, <<b, b>> >>
    /\ <<b, a>> \notin storeCall.pre
    /\ <<b, a>> \in stores[storeCall.store].redactions
    /\ <<b, b>> \notin stores[storeCall.store].redactions

\* C12: every member of every store's secret set has at least 2 characters.
C12_MembersAtLeastTwo ==
    \A i \in 1..Len(stores) : \A s \in stores[i].redactions : Len(s) >= 2

C13_IdKept == \A i \in 1..Len(stores) : id(stores'[i]) = id(stores[i])

\* C13: the id of a store is the same after every Add, Values and RedactString
\* call on any store, and two different stores never have the same id.
C13_IdConstantAndUnique ==
    /\ [][C13_IdKept]_vars
    /\ [](\A i, j \in 1..Len(stores) : i # j => id(stores[i]) # id(stores[j]))

\* two stores, one of them just changed by Add
C13_Witness ==
    /\ Len(stores) = 2
    /\ storeCall.op = "Add"
    /\ stores[storeCall.store].redactions # storeCall.pre
    /\ Cardinality(stores[1].redactions) = Cardinality(stores[2].redactions)

NoDuplicates(list) == \A i, j \in 1..Len(list) : i # j => list[i] # list[j]

C14_Listing ==
    /\ storeCall.op = "Values" =>
        /\ NoDuplicates(storeCall.out)
        /\ {storeCall.out[j] : j \in 1..Len(storeCall.out)} = storeCall.pre
    /\ storeCall.op = "NewStore" =>
        \A order \in Values(stores[storeCall.store].redactions) :
            /\ NoDuplicates(order)
            /\ \A j \in 1..Len(storeCall.args) :
                   \E k \in 1..Len(order) : order[k] = storeCall.args[j]
    /\ (storeCall.op = "Add"
          /\ \A j \in 1..Len(storeCall.args) : storeCall.args[j] \in storeCall.pre) =>
        stores[storeCall.store].redactions = storeCall.pre

C14_AddAgain ==
    (storeCall.op = "Add" /\ storeCall'.op = "Add"
       /\ storeCall'.args = storeCall.args) => stores' = stores

\* C14: the store is a set: Values never lists a value twice, duplicates given
\* to NewStore are one member, Add of values already present changes nothing,
\* and the same Add made twice in a row leaves what the first one left.
C14_SetSemantics == []C14_Listing /\ [][C14_AddAgain]_vars

\* NewStore("ab", "ab") has been listed: one value
C14_Witness ==
    /\ storeCall.op = "Values"
    /\ storeCall.pre = {<<a, b>>}
    /\ storeCall.out = << <<a, b>> >>

\* the occurrence of s at offset i of input is replaced by the marker, the text
\* before it and the text after it being redacted on their own
ReplacedAt(call, s, i) ==
    call.out = RedactString(SliceTo(call.in, i), call.order)
                 \o <<"*", "*", "*", "*", "*", "*", "*">>
                 \o RedactString(SliceFrom(call.in, i + Len(s)), call.order)

\* the occurrence of s at offset i shares a byte with another occurrence of a
\* tracked secret
Crowded(call, s, i) ==
    \E t \in call.pre : \E j \in 0..Len(call.in) :
        /\ <<t, j>> # <<s, i>>
        /\ StartsWithAt(call.in, j, t)
        /\ j < i + Len(s)
        /\ i < j + Len(t)

\* C15 as stated: every occurrence of every tracked secret of 2 or more
\* characters is replaced by exactly seven '*', and an empty store returns its
\* input.
C15_EveryOccurrence ==
    storeCall.op = "RedactString" =>
        /\ storeCall.pre = {} => storeCall.out = storeCall.in
        /\ \A s \in storeCall.pre : \A i \in 0..Len(storeCall.in) :
               (Len(s) >= 2 /\ StartsWithAt(storeCall.in, i, s)) =>
                   ReplacedAt(storeCall, s, i)

\* C15: in a store without an empty secret and without '*' in a secret, an
\* occurrence of a tracked secret of 2 or more characters that shares no byte
\* with another occurrence of a tracked secret is replaced by exactly seven
\* '*'; an empty store returns its input.
C15_IsolatedOccurrence ==
    storeCall.op = "RedactString" =>
        /\ storeCall.pre = {} => storeCall.out = storeCall.in
        /\ (NoStar(storeCall.pre) /\ <<>> \notin storeCall.pre) =>
            \A s \in storeCall.pre : \A i \in 0..Len(storeCall.in) :
               (Len(s) >= 2 /\ StartsWithAt(storeCall.in, i, s)
                    /\ ~Crowded(storeCall, s, i)) =>
                   ReplacedAt(storeCall, s, i)

\* "bbabx" with the secrets "ab" and "abb": "bb*******x"
C15_Witness ==
    /\ storeCall.op = "RedactString"
    /\ storeCall.pre = {<<a, b>>, <<a, b, b>>}
    /\ storeCall.in = <<b, b, a, b, "x">>
    /\ storeCall.out = <<b, b>> \o RedactionMarker \o <<"x">>

\* C16: the result of RedactString depends on the store's contents and the
\* input only, not on the order in which the set is listed.
C16_Deterministic ==
    storeCall.op = "RedactString" =>
        \A order \in Values(storeCall.pre) :
            storeCall.out = RedactString(storeCall.in, order)

----------------------------------------------------------------------------
(* Properties of collections *)

\* the argument list with every collection replaced by its members, at any depth
RECURSIVE Flattened(_)
Flattened(readers) ==
    IF readers = <<>> THEN <<>>
    ELSE IF Head(readers).kind = "collection"
         THEN Flattened(Head(readers).members) \o Flattened(Tail(readers))
         ELSE <<Head(readers)>> \o Flattened(Tail(readers))

\* C17: a collection built from collections has the members, in the order,
\* of the collection built from the flattened argument list, and redacts every
\* input as that one does; no member of a constructed collection is a collection.
C17_Flattening ==
    /\ \A k \in 1..Len(built) : \A j \in 1..Len(built[k].members) :
           built[k].members[j].kind = "leaf"
    /\ collCall.op = "new" =>
        LET flat == newStoreReaderCollection(Flattened(collCall.args))
        IN /\ collCall.result.members = flat.members
           /\ \A input \in CollectionInputs :
                  CollectionRedactString(collCall.result.members, input)
                      = CollectionRedactString(flat.members, input)

\* newCollection(newCollection(mock1, mock2), store3) has the three members
C17_Witness ==
    /\ collCall.op = "new"
    /\ collCall.args = <<Collection(<<mock1, mock2>>), store3>>
    /\ collCall.result.members = <<mock1, mock2, store3>>

\* the first reader of the list with the id of r
FirstWithId(readers, r) ==
    readers[CHOOSE j \in 1..Len(readers) :
                /\ readerId(readers[j]) = readerId(r)
                /\ \A i \in 1..(j - 1) : readerId(readers[i]) # readerId(r)]

\* C18: no two members of a constructed collection have the same id, and of
\* the arguments with one id, at any depth, the first is the member: it is its
\* replacement that the collection applies.
C18_Dedup ==
    /\ \A k \in 1..Len(built) : \A i, j \in 1..Len(built[k].members) :
           i # j => readerId(built[k].members[i]) # readerId(built[k].members[j])
    /\ collCall.op = "new" =>
        LET flat == Flattened(collCall.args)
            members == collCall.result.members
        IN /\ \A j \in 1..Len(flat) :
                  \E k \in 1..Len(members) : members[k] = FirstWithId(flat, flat[j])
           /\ \A k \in 1..Len(members) :
                  /\ \E j \in 1..Len(flat) : flat[j] = members[k]
                  /\ members[k] = FirstWithId(flat, members[k])
           /\ (Len(flat) > 0 /\ \A j \in 1..Len(flat) : readerId(flat[j]) = readerId(flat[1])) =>
                  \A input \in CollectionInputs :
                      CollectionRedactString(members, input)
                          = ReplaceAll(input, flat[1].old, flat[1].new)

\* newCollection(mock1, mock1b): mock1 alone is kept
C18_Witness ==
    /\ collCall.op = "new"
    /\ collCall.args = <<mock1, mock1b>>
    /\ collCall.result.members = <<mock1>>

\* the members applied one after the other, written from the last one back
RECURSIVE Composed(_, _)
Composed(members, input) ==
    IF members = <<>> THEN input
    ELSE LET last == members[Len(members)]
             front == SubSeq(members, 1, Len(members) - 1)
         IN ReplaceAll(Composed(front, input), last.old, last.new)

\* C19: RedactString of a collection gives the input to the first member, each
\* member's output to the next one, and returns the last member's output; an
\* empty collection returns the input.
C19_Pipeline ==
    collCall.op = "RedactString" =>
        /\ collCall.out = Composed(collCall.result.members, collCall.in)
        /\ collCall.result.members = <<>> => collCall.out = collCall.in

\* "ab" through a -> b and then b -> c is "cc": the second member saw "bb"
C19_Witness ==
    /\ collCall.op = "RedactString"
    /\ collCall.result.members = <<mock1, mock2>>
    /\ collCall.in = <<a, b>>
    /\ collCall.out = <<"c", "c">>

----------------------------------------------------------------------------
(* Properties of the writer under concurrent calls *)

\* at most one thread is inside Write or Close, and it is the one holding the lock
MutualExclusion ==
    \A t, u \in Threads :
        /\ pc[t].at = "locked" => lock = t
        /\ (pc[t].at = "locked" /\ pc[u].at = "locked") => t = u

\* one Close has run, after every Write, and no call is under way
FinalClose ==
    /\ ClosedOK
    /\ nCloses = 1
    /\ \A t \in Threads : pc[t].at = "idle"

\* with secrets that cannot overlap, the output of concurrent Writes and a
\* final Close is the redacted form of the chunks in the order the lock was taken
SerializedNonOverlapping ==
    /\ MutualExclusion
    /\ (FinalClose /\ NonOverlapping(redactions)) =>
           \A v \in Values(redactions) : sink = RedactString(text, v)

\* C20: Write and Close calls of concurrent threads run one at a time under
\* the writer's lock, and after all the Writes and a final Close the sink holds
\* no tracked secret.
C20_SerializedNoSecret ==
    /\ MutualExclusion
    /\ FinalClose => \A s \in redactions : ~Contains(sink, s)

----------------------------------------------------------------------------
(* Properties of the buffer *)

\* the last call was a Write whose flush the underlying writer took
Flushed == ret.op = "Write" /\ ret.sinkWrites = 1 /\ ret.err = "nil"

\* the buffer of the last Write right after its append
Appended == ret.pre \o ret.data

\* the last k bytes of s
LastBytes(s, k) == SliceFrom(s, Len(s) - k)

\* the number of '*' at the end of s
TrailingStars(s) ==
    CHOOSE n \in 0..Len(s) :
        /\ \A i \in (Len(s) - n + 1)..Len(s) : s[i] = "*"
        /\ n = Len(s) \/ s[Len(s) - n] # "*"

\* the number of '*' at the start of s
LeadingStars(s) ==
    CHOOSE n \in 0..Len(s) :
        /\ \A i \in 1..n : s[i] = "*"
        /\ n = Len(s) \/ s[n + 1] # "*"

\* the secrets are non-empty, free of '*' and cannot overlap one another
PlainSecrets ==
    /\ NoStar(redactions)
    /\ <<>> \notin redactions
    /\ NonOverlapping(redactions)

\* s holds no occurrence of a secret: it is the redacted form of some text
InRedactedForm(s) == \A v \in Values(redactions) : RedactString(s, v) = s

\* C23 as stated: in every state after the first successful flush the buffer is
\* in redacted form, never a mix of redacted and raw bytes.
C23_AlwaysRedacted ==
    (sink # <<>> /\ nCloses = 0 /\ ~crashed /\ ~failedEver
        /\ NoStar(redactions) /\ <<>> \notin redactions) =>
        InRedactedForm(buffer)

\* C23: right after every successful flush (secrets non-empty, without '*',
\* unable to overlap) the buffer is the redacted form of the trailing bytes of
\* the pre-flush buffer, at most a window of them; a Write that does not flush
\* leaves its bytes raw behind what the buffer held.
C23_RedactedAfterFlush ==
    /\ (Flushed /\ PlainSecrets) =>
           \E k \in 0..ret.window : \E v \in Values(redactions) :
               buffer = RedactString(LastBytes(Appended, k), v)
    /\ (ret.op = "Write" /\ ret.sinkWrites = 0) => buffer = ret.pre \o ret.data

\* after a flush that kept seven 'a', a Write of "b" that does not flush: the
\* buffer ends with the raw secret "ab"
C23_Witness ==
    /\ sink # <<>>
    /\ ~failedEver
    /\ <<a, b>> \in redactions
    /\ ret.op = "Write"
    /\ ret.sinkWrites = 0
    /\ ret.pre = Repeat(a, 7)
    /\ buffer = Repeat(a, 7) \o <<b>>

\* C24: on every flush the mapped boundary falls between markers, never inside
\* one: the bytes flushed do not end, and the bytes retained do not start, with
\* part of a marker.
C24_NoMarkerBisected ==
    Flushed =>
        /\ TrailingStars(sink) % 7 = 0
        /\ LeadingStars(buffer) % 7 = 0

\* C25 as stated: after every successful flush exactly windowSize bytes of the
\* pre-flush buffer stay pending, in redacted form.
C25_ExactlyWindowPending ==
    (Flushed /\ fixedSet /\ PlainSecrets) =>
        \E v \in Values(redactions) :
            buffer = RedactString(LastBytes(Appended, ret.window), v)

\* the flushed bytes are the redacted first j bytes of the pre-flush buffer and
\* the buffer is the redacted rest
SplitAt(j) ==
    \E v \in Values(redactions) :
        LET flushed == RedactString(SliceTo(Appended, j), v)
        IN /\ Len(flushed) <= Len(sink)
           /\ LastBytes(sink, Len(flushed)) = flushed
           /\ buffer = RedactString(SliceFrom(Appended, j), v)

\* C25: after every successful flush (secrets non-empty, without '*', unable to
\* overlap) the flushed bytes are the redacted form of the first
\* len(buffer) - windowSize bytes of the pre-flush buffer, extended to the end
\* of a secret occurrence that straddles that boundary: at most windowSize
\* bytes, and more than windowSize minus the longest secret, stay pending.
C25_WindowPending ==
    (Flushed /\ PlainSecrets) =>
        LET origFlushLen == Len(Appended) - ret.window
        IN \E j \in origFlushLen..(origFlushLen + (ret.window \div 2) - 1) :
               j <= Len(Appended) /\ SplitAt(j)

\* "ababaaaaaaa" with the secrets "aa" and "bb": the boundary 7 falls inside an
\* occurrence of "aa", and 3 bytes stay pending
C25_Witness ==
    /\ Flushed
    /\ redactions = {<<a, a>>, <<b, b>>}
    /\ Appended = <<a, b, a, b>> \o Repeat(a, 7)
    /\ buffer = RedactionMarker \o <<a>>

\* C28 as stated: after every Write that returns without error the buffer holds
\* at most windowSize bytes.
C28_BufferWithinWindow ==
    (ret.op = "Write" /\ ret.err = "nil") => Len(buffer) <= ret.window

\* C28: after every Write that returns without error (secrets non-empty,
\* without '*', unable to overlap) the buffer holds at most windowSize bytes
\* when nothing was flushed, and after a flush the redacted form of at most
\* windowSize bytes, which is at most 7 x windowSize bytes long.
C28_BufferBounded ==
    (ret.op = "Write" /\ ret.err = "nil" /\ PlainSecrets) =>
        /\ ret.sinkWrites = 0 => Len(buffer) <= ret.window
        /\ ret.sinkWrites = 1 =>
            /\ Len(buffer) <= 7 * ret.window
            /\ \E k \in 0..ret.window : \E v \in Values(redactions) :
                   buffer = RedactString(LastBytes(Appended, k), v)

\* secret "ab", window 4: after the flush the buffer holds two markers
C28_Witness ==
    /\ Flushed
    /\ redactions = {<<a, b>>}
    /\ ret.window = 4
    /\ buffer = RedactionMarker \o RedactionMarker

C30_Step ==
    (ClosedOK /\ ret'.op = "Close") =>
        /\ sink' = sink
        /\ ret'.sinkWrites = 0
        /\ buffer' = <<>>

C30_Delivery ==
    (ret'.op = "Close" /\ ret'.err # "werr") =>
        /\ \E v \in Values(redactions) : sink' = sink \o RedactString(buffer, v)
        /\ buffer' = <<>>

\* C30: a Close whose sink write succeeded hands over the redacted buffer and
\* leaves the buffer empty, and a Close after it delivers nothing more.
C30_DeliveredOnce ==
    /\ [](ClosedOK => buffer = <<>>)
    /\ [][C30_Step]_vars
    /\ [][C30_Delivery]_vars

\* a second Close after one that delivered bytes
C30_Witness ==
    /\ nCloses = 2
    /\ ClosedOK
    /\ ret.pre = <<>>
    /\ sink # <<>>
    /\ ~failedEver

----------------------------------------------------------------------------
(* Properties of repeated redaction *)

\* C26: with no tracked secret containing a '*', redacting text that
\* RedactString returned gives the same text back.
C26_Idempotent ==
    (storeCall.op = "RedactStringAgain" /\ NoStar(storeCall.pre)) =>
        storeCall.out = storeCall.in

\* for stores that do not track the empty string the second pass changes nothing
IdempotentNonEmpty ==
    (storeCall.op = "RedactStringAgain" /\ NoStar(storeCall.pre)
        /\ <<>> \notin storeCall.pre) =>
        storeCall.out = storeCall.in

----------------------------------------------------------------------------
(* Properties of a writer backed by a collection *)

\* the secrets of all member stores
AllSecrets == UNION {stores[i].redactions : i \in 1..Len(stores)}

\* the length of the longest string of a non-empty set
Longest(set) ==
    CHOOSE n \in {Len(x) : x \in set} : \A m \in {Len(x) : x \in set} : m <= n

\* 2 x the longest secret of all member stores, 2 x 64 when there is none
AggregatedWindow ==
    IF AllSecrets = {} THEN 2 * DefaultMaxLen ELSE 2 * Longest(AllSecrets)

\* the bytes flushed and the bytes kept are the redacted halves of the buffer,
\* every member's secrets replaced in both
SplitByAllSecrets ==
    LET appended == buffer \o ret'.data
    IN \E v \in Values(AllSecrets), j \in 0..Len(appended) :
           /\ sink' = sink \o RedactString(SliceTo(appended, j), v)
           /\ buffer' = RedactString(SliceFrom(appended, j), v)

C27_Step ==
    (nWrites' = nWrites + 1) =>
        /\ ret'.window = AggregatedWindow
        /\ (ret'.op = "Write" /\ ret'.sinkWrites = 1 /\ ret'.err = "nil"
              /\ NoStar(AllSecrets) /\ <<>> \notin AllSecrets
              /\ NonOverlapping(AllSecrets)) => SplitByAllSecrets

\* C27: every Write of a writer backed by a collection computes its window as
\* 2 x the longest secret over the values all member stores hold at that
\* moment, what an Add on any member has added since the last Write included,
\* and splits the redacted text at a boundary mapped with all of them.
C27_AggregatedWindow == [][C27_Step]_vars

\* "xxxxx" is flushed under the window 4 of "ab" and "cd"; after Add("efg") on
\* the second member the Write of "e" sees the window 6 and does not flush
C27_Witness ==
    /\ ret.op = "Write"
    /\ ret.window = 6
    /\ ret.sinkWrites = 0
    /\ sink = <<"x">>
    /\ buffer = <<"x", "x", "x", "x", "e">>
    /\ storeCall.op = "Add"
    /\ storeCall.store = 2
    /\ <<"e", "f", "g">> \in stores[2].redactions
    /\ <<"e", "f", "g">> \notin stores[1].redactions

----------------------------------------------------------------------------
(* Properties of a store under concurrent calls *)

InAdd(t) == pc[t].at \in {"locked", "loaded"}

InRead(t) == pc[t].at = "rlocked"

\* an Add overlaps no other Add and no read
AddExcludesAll ==
    \A t, u \in Threads : (t # u /\ InAdd(t)) => (~InAdd(u) /\ ~InRead(u))

\* no member of the set is ever lost; an Add that returns has committed its
\* values up to the first short one; Values lists the set as it is
C21_Step ==
    /\ redactions \subseteq redactions'
    /\ \A t \in Threads :
        /\ (pc[t].at = "loaded" /\ pc'[t].at = "idle") =>
               AddLoop({}, pc[t].args) \subseteq redactions'
        /\ (pc[t].at = "rlocked" /\ pc'[t].at = "idle" /\ pc[t].op = "Values") =>
               {pc'[t].out[i] : i \in 1..Len(pc'[t].out)} = redactions

\* C21: on one store an Add overlaps neither another Add nor a read, and
\* whatever the interleaving, the set keeps every initial value and every
\* value an Add has committed.
C21_ReadWriteLock == []AddExcludesAll /\ [][C21_Step]_vars

\* two reads overlap, after an Add has added "bb"
C21_Witness ==
    /\ \A t \in Threads : InRead(t)
    /\ redactions = {<<a, b>>, <<b, b>>}

----------------------------------------------------------------------------
(* Properties of a writer whose store changes under it *)

\* C29: the window computation, the redaction and the position mapping of one
\* Write observe the same secret set, and the boundary lies within the
\* redacted text.
C29_SameSecretSet ==
    /\ \A t \in Threads :
        \A i, j \in 1..Len(pc[t].seen) : pc[t].seen[i] = pc[t].seen[j]
    /\ ret.op # "panic"

\* C22: every Write, Close and Add that is called returns.
C22_EveryCallReturns ==
    \A t \in Threads : (pc[t].at # "idle") ~> (pc[t].at = "idle")

\* a mapping scan that never ends
Stuck == \E t \in Threads : pc[t].at = "looping"

\* the locks themselves hold no call back: a call returns unless the process
\* has panicked or a Write is caught in its mapping scan
ReturnsUnlessStuck ==
    \A t \in Threads : (pc[t].at # "idle") ~> (pc[t].at = "idle" \/ crashed \/ Stuck)

====
